---- MODULE Spec2Model ----
(***************************************************************************)
(* Connectivity manager of the LoRaWAN geofencing firmware                 *)
(* (src/src/lorawan_manager.cpp): OTAA join rate limiting, duty-cycle      *)
(* gated uplinks, transmission statistics and the session record kept in   *)
(* the Preferences store, across device restarts.                          *)
(*                                                                         *)
(* The manager is driven by an arbitrary caller: any operation may be      *)
(* called at any time, the clock (millis) advances between and during the  *)
(* blocking radio calls, and the device may restart at any point between   *)
(* operations.                                                             *)
(*                                                                         *)
(* Three specifications:                                                   *)
(*   Spec       the connectivity manager and the control loop's handling   *)
(*              of a geofence event (src/src/main.cpp)                     *)
(*   CodecSpec  the payload encoders, applied to records drawn from        *)
(*              bounded sets                                               *)
(*   GeoSpec    the geofence engine behind geofenceManager.checkGeofences  *)
(*              fed with position samples                                  *)
(***************************************************************************)
EXTENDS Integers, Sequences, FiniteSets, TLC

\* ------------------------------------------------------------ constants
TX_INTERVAL_MS == 60000
JOIN_RETRY_DELAY == 30000
MAX_JOIN_ATTEMPTS == 10
MAX_GEOFENCES == 5
\* Metres.
GEOFENCE_HYSTERESIS == 2
DEFAULT_GEOFENCE_RADIUS == 100

\* ------------------------------------------------------------ bounds
\* millis() is a uint32_t; the model keeps the unsigned subtraction but with
\* a narrower word, wide enough for every clock value the bounds allow.
ClockBits == 20
\* The clock stops advancing after this many JOIN_RETRY_DELAY periods.
MaxPeriods == 11
\* No uplink is attempted once totalTransmissions has reached this.
MaxTx == 3
\* The longest payload the LoRaWANNode takes; node->sendReceive answers a
\* longer one with RADIOLIB_ERR_PACKET_TOO_LONG.
MaxFrame == 51
\* The geofence engine is fed at most this many samples.
MaxSamples == 4
\* hexStringToBytes is run on buffers of up to this many bytes.
MaxHexBytes == 2

Wrap == 2 ^ ClockBits
MaxTime == MaxPeriods * JOIN_RETRY_DELAY

VARIABLES
    \* LoRaWANManager fields
    isJoined, isInitialized, lastTxTime, lastJoinAttempt, joinAttempts,
    txCounter, totalTransmissions, successfulTransmissions,
    failedTransmissions, totalJoinAttempts,
    \* environment
    now,        \* millis()
    node,       \* the LoRaWANNode: "idle", "pending" (join requested), "joined"
    prefs,      \* the record in the Preferences namespace "geofence"
    \* observation of the run (history, never read by the manager)
    call,          \* the last operation: what was called, returned and invoked
    lastSuccessAt, \* clock time of this run's last successful uplink, or -1
    lastCallAt,    \* clock time of this run's last startJoin call while not joined, or -1
    degraded,      \* startJoin took its maximum-attempts branch and has not
                   \* called node->beginOTAA since
    \* build configuration
    creds,      \* LORAWAN_DEVEUI, LORAWAN_APPEUI, LORAWAN_APPKEY as compiled in
    \* payload codec (CodecSpec)
    record,     \* the record last given to an encoder
    buffer,     \* the bytes the encoder wrote
    \* geofence engine (GeoSpec)
    inside,     \* per zone: the committed "currently inside" flag
    trail,      \* the samples evaluated so far
    emitted,    \* what each evaluation returned
    \* clock wraparound (WrapSpec)
    elapsed     \* milliseconds truly gone by since lastTxTime and
                \* lastJoinAttempt were set

mgr == <<isJoined, isInitialized, lastTxTime, lastJoinAttempt, joinAttempts,
         txCounter, totalTransmissions, successfulTransmissions,
         failedTransmissions, totalJoinAttempts>>
vars == <<isJoined, isInitialized, lastTxTime, lastJoinAttempt, joinAttempts,
          txCounter, totalTransmissions, successfulTransmissions,
          failedTransmissions, totalJoinAttempts, now, node, prefs, call,
          lastSuccessAt, lastCallAt, degraded, creds, record, buffer, inside,
          trail, emitted, elapsed>>
\* The connectivity manager, its environment and the observation of its run.
link == <<isJoined, isInitialized, lastTxTime, lastJoinAttempt, joinAttempts,
          txCounter, totalTransmissions, successfulTransmissions,
          failedTransmissions, totalJoinAttempts, now, node, prefs, call,
          lastSuccessAt, lastCallAt, degraded, creds>>
codec == <<record, buffer>>
engine == <<inside, trail, emitted>>

None == [tx_counter |-> -1, total_tx |-> -1, success_tx |-> -1, failed_tx |-> -1]

\* The transmit counters of the manager as one value.
Counters == [tx_counter |-> txCounter, total_tx |-> totalTransmissions,
             success_tx |-> successfulTransmissions,
             failed_tx |-> failedTransmissions]

\* What an operation did: its return value and the capability and storage
\* calls it made.
\*   radio     result of node->beginOTAA or node->sendReceive: "ok", "err",
\*             or "none" when the operation did not invoke it
\*   polled    node->isJoined() was queried
\*   saved     number of saveSession() calls
\*   restarted ESP.restart() was called
\*   snap      at a power cycle or the begin() after it: the counters a
\*             successful uplink just before the power cycle left in memory
\*   sent      length of the payload given to node->sendReceive, 0 if none
\*   opened    result of the operation's Preferences.begin: "yes", "no", or
\*             "none" when the operation did not call it
\*   handle    the Preferences handle when the operation returns: "closed"
\*             or "open"
Call(op, ret, radio, polled, saved, restarted, snap) ==
    [op |-> op, ret |-> ret, radio |-> radio, polled |-> polled,
     saved |-> saved, restarted |-> restarted, snap |-> snap, sent |-> 0,
     opened |-> "none", handle |-> "closed"]
Quiet(op, ret) == Call(op, ret, "none", FALSE, 0, FALSE, None)
\* No operation since the clock or the network last moved.
Idle == Quiet("none", FALSE)

SendOps == {"sendGPSData", "sendGeofenceEvent", "sendStatusUpdate",
            "sendCustomPayload"}

\* ------------------------------------------------------------ clock
\* Variant: the subtraction made in a type wide enough to go negative.
ElapsedSigned(t, last) == t - last

\* uint32_t subtraction now - last.
Elapsed(t, last) == (t - last + Wrap) % Wrap

\* The instants at which the clock is observed: the start and the last
\* millisecond of every JOIN_RETRY_DELAY period, so that for an event at a
\* period start both t + interval - 1 and t + interval are observed.
NextInstant(t) ==
    IF t % JOIN_RETRY_DELAY = 0 THEN t + JOIN_RETRY_DELAY - 1 ELSE t + 1

\* Time a blocking radio call may take: none, or up to the next instant.
AfterCall(t) == IF t < MaxTime THEN {t, NextInstant(t)} ELSE {t}

\* ------------------------------------------------------------ storage
EmptyPrefs == [joined |-> FALSE, tx_counter |-> 0, total_tx |-> 0,
               success_tx |-> 0, failed_tx |-> 0]

\* What the store does during one saveSession() or loadSession():
\*   opened   Preferences.begin succeeded
\*   failed   the keys whose put or get fails
AllOk == [opened |-> TRUE, failed |-> {}]
Refused == [opened |-> FALSE, failed |-> {}]

\* saveSession(): the record after the call. A put that fails leaves the
\* key as it was; the result of a put is not looked at.
SaveSession(store, j, c, old) ==
    IF store.opened
    THEN [joined |-> IF "joined" \in store.failed THEN old.joined ELSE j,
          tx_counter |-> IF "tx_counter" \in store.failed
                         THEN old.tx_counter ELSE c.tx_counter,
          total_tx |-> IF "total_tx" \in store.failed
                       THEN old.total_tx ELSE c.total_tx,
          success_tx |-> IF "success_tx" \in store.failed
                         THEN old.success_tx ELSE c.success_tx,
          failed_tx |-> IF "failed_tx" \in store.failed
                        THEN old.failed_tx ELSE c.failed_tx]
    ELSE old

\* Variant: tx_counter is not read back.
LoadSessionNoSequence(store, p, j, c) ==
    [joined |-> IF store.opened THEN p.joined ELSE j,
     tx_counter |-> c.tx_counter,
     total_tx |-> IF store.opened THEN p.total_tx ELSE c.total_tx,
     success_tx |-> IF store.opened THEN p.success_tx ELSE c.success_tx,
     failed_tx |-> IF store.opened THEN p.failed_tx ELSE c.failed_tx]

\* loadSession(): the fields after the call. A get that fails returns the
\* default given to it, false or 0.
LoadSession(store, p, j, c) ==
    IF store.opened
    THEN [joined |-> IF "joined" \in store.failed THEN FALSE ELSE p.joined,
          tx_counter |-> IF "tx_counter" \in store.failed
                         THEN 0 ELSE p.tx_counter,
          total_tx |-> IF "total_tx" \in store.failed THEN 0 ELSE p.total_tx,
          success_tx |-> IF "success_tx" \in store.failed
                         THEN 0 ELSE p.success_tx,
          failed_tx |-> IF "failed_tx" \in store.failed
                        THEN 0 ELSE p.failed_tx]
    ELSE [joined |-> j, tx_counter |-> c.tx_counter, total_tx |-> c.total_tx,
          success_tx |-> c.success_tx, failed_tx |-> c.failed_tx]

\* Variant: the handle is closed only when every put or get succeeded.
ScopedHandleUnlessFailed(store) ==
    IF store.opened /\ store.failed # {} THEN "open" ELSE "closed"

\* saveSession() lines 309-315, loadSession() lines 323-329: the handle
\* when the function returns. prefs.end() is reached on every path through
\* the block that prefs.begin() guards.
ScopedHandle(store) ==
    LET afterBegin == IF store.opened THEN "open" ELSE "closed"
    IN  IF afterBegin = "open" THEN "closed" ELSE afterBegin

\* The store calls of an operation added to what it did.
WithStore(c, store) ==
    [c EXCEPT !.opened = IF store.opened THEN "yes" ELSE "no",
              !.handle = ScopedHandle(store)]

\* The store works.
StoreOutcomes == {AllOk}
\* The store may refuse to open, or fail on the sequence counter, on the
\* succeeded counter or on the joined flag.
FaultyOutcomes ==
    {AllOk, Refused, [opened |-> TRUE, failed |-> {"tx_counter"}],
     [opened |-> TRUE, failed |-> {"joined", "success_tx"}]}

\* ------------------------------------------------------------ credentials
\* Strings are sequences of character codes ('0' = 48, 'A' = 65, 'a' = 97).
LORAWAN_DEVEUI ==
    <<53, 56, 69, 67, 51, 67, 52, 51, 67, 65, 52, 56, 48, 48, 48, 48>>
LORAWAN_APPEUI ==
    <<48, 48, 48, 48, 48, 48, 48, 48, 48, 48, 48, 48, 48, 48, 48, 48>>
LORAWAN_APPKEY ==
    <<67, 69, 56, 65, 57, 54, 70, 53, 52, 51, 50, 55, 68, 49, 67, 66,
      50, 48, 48, 55, 56, 70, 55, 56, 68, 52, 55, 52, 54, 53, 49, 55>>

\* The credentials of project_config.h.
SourceConfig ==
    [devEUI |-> LORAWAN_DEVEUI, appEUI |-> LORAWAN_APPEUI,
     appKey |-> LORAWAN_APPKEY]

\* Builds with one malformed credential: a character short, a character
\* long, a letter that is no hex digit ('G', 'g') or a blank.
BadConfigs ==
    {[SourceConfig EXCEPT !.devEUI = SubSeq(LORAWAN_DEVEUI, 1, 15)],
     [SourceConfig EXCEPT !.devEUI = [LORAWAN_DEVEUI EXCEPT ![16] = 32]],
     [SourceConfig EXCEPT !.appEUI = [LORAWAN_APPEUI EXCEPT ![1] = 71]],
     [SourceConfig EXCEPT !.appEUI = Append(LORAWAN_APPEUI, 48)],
     [SourceConfig EXCEPT !.appKey = Append(LORAWAN_APPKEY, 70)],
     [SourceConfig EXCEPT !.appKey = [LORAWAN_APPKEY EXCEPT ![32] = 103]],
     [SourceConfig EXCEPT !.appKey = SubSeq(LORAWAN_APPKEY, 1, 16)]}

Configs == {SourceConfig} \cup BadConfigs

\* isxdigit() of the C library.
isxdigit(c) == c \in (48..57) \cup (65..70) \cup (97..102)

\* a | b on non-negative integers.
RECURSIVE BitOr(_, _)
BitOr(a, b) ==
    IF a = 0 THEN b
    ELSE IF b = 0 THEN a
    ELSE (IF a % 2 = 1 \/ b % 2 = 1 THEN 1 ELSE 0) + 2 * BitOr(a \div 2, b \div 2)

\* hexStringToBytes(), lines 358-359: the value taken for one character.
HexValue(c) == IF c >= 65 THEN c - 65 + 10 ELSE c - 48

\* hexStringToBytes(), lines 350-360: the loop from index i on. bytes is
\* the output buffer, changed in place up to the first rejected pair.
RECURSIVE HexLoop(_, _, _, _)
HexLoop(hexStr, bytes, i, maxBytes) ==
    IF i = maxBytes
    THEN [ok |-> TRUE, bytes |-> bytes]
    ELSE LET high == hexStr[i * 2 + 1]
             low == hexStr[i * 2 + 2]
         IN  IF ~isxdigit(high) \/ ~isxdigit(low)
             THEN [ok |-> FALSE, bytes |-> bytes]
             ELSE HexLoop(hexStr,
                          [bytes EXCEPT ![i + 1] =
                               BitOr((HexValue(high) * 16) % 256,
                                     HexValue(low)) % 256],
                          i + 1, maxBytes)

\* hexStringToBytes(): the return value and the buffer after the call.
hexStringToBytes(hexStr, bytes, maxBytes) ==
    IF Len(hexStr) # maxBytes * 2
    THEN [ok |-> FALSE, bytes |-> bytes]
    ELSE HexLoop(hexStr, bytes, 0, maxBytes)

Zeroed(n) == [i \in 1..n |-> 0]

\* Variant: the result for the AppKey is not looked at.
parseCredentialsKeyUnchecked(c) ==
    /\ hexStringToBytes(c.devEUI, Zeroed(8), 8).ok
    /\ hexStringToBytes(c.appEUI, Zeroed(8), 8).ok

\* parseCredentials(): its return value.
parseCredentials(c) ==
    /\ hexStringToBytes(c.devEUI, Zeroed(8), 8).ok
    /\ hexStringToBytes(c.appEUI, Zeroed(8), 8).ok
    /\ hexStringToBytes(c.appKey, Zeroed(16), 16).ok

\* ------------------------------------------------------------ payload codec
MSG_TYPE_GPS_DATA == 1
MSG_TYPE_GEOFENCE_EVENT == 2

\* (x >> shift) & 0xFF on a signed integer.
Byte(x, shift) == (x \div (2 ^ shift)) % 256

\* Variant: the altitude written low byte first.
encodeGPSDataAltitudeSwapped(gps) ==
    <<MSG_TYPE_GPS_DATA,
      Byte(gps.latitude, 24), Byte(gps.latitude, 16),
      Byte(gps.latitude, 8), Byte(gps.latitude, 0),
      Byte(gps.longitude, 24), Byte(gps.longitude, 16),
      Byte(gps.longitude, 8), Byte(gps.longitude, 0),
      Byte(gps.altitude, 0), Byte(gps.altitude, 8),
      gps.satellites, gps.hdop>>

\* encodeGPSData(): the bytes written to the buffer; the return value is
\* their number.
encodeGPSData(gps) ==
    <<MSG_TYPE_GPS_DATA,
      Byte(gps.latitude, 24), Byte(gps.latitude, 16),
      Byte(gps.latitude, 8), Byte(gps.latitude, 0),
      Byte(gps.longitude, 24), Byte(gps.longitude, 16),
      Byte(gps.longitude, 8), Byte(gps.longitude, 0),
      Byte(gps.altitude, 8), Byte(gps.altitude, 0),
      gps.satellites, gps.hdop>>

\* encodeGeofenceEvent().
encodeGeofenceEvent(event) ==
    <<MSG_TYPE_GEOFENCE_EVENT,
      event.geofence_id, event.event_type,
      Byte(event.latitude, 24), Byte(event.latitude, 16),
      Byte(event.latitude, 8), Byte(event.latitude, 0),
      Byte(event.longitude, 24), Byte(event.longitude, 16),
      Byte(event.longitude, 8), Byte(event.longitude, 0),
      Byte(event.timestamp, 24), Byte(event.timestamp, 16),
      Byte(event.timestamp, 8), Byte(event.timestamp, 0)>>

\* ------------------------------------------------------------ manager
Constructed ==
    /\ isJoined = FALSE
    /\ isInitialized = FALSE
    /\ lastTxTime = 0
    /\ lastJoinAttempt = 0
    /\ joinAttempts = 0
    /\ txCounter = 0
    /\ totalTransmissions = 0
    /\ successfulTransmissions = 0
    /\ failedTransmissions = 0
    /\ totalJoinAttempts = 0

\* A record left in the store by an earlier firmware image.
StoredSession == [joined |-> TRUE, tx_counter |-> 1, total_tx |-> 1,
                  success_tx |-> 1, failed_tx |-> 0]

\* No record has been encoded.
CodecIdle == record = [kind |-> "none"] /\ buffer = <<>> /\ elapsed = 0

\* The manager after construction and its surroundings at power-up.
PowerUp ==
    /\ Constructed
    /\ now = 0
    /\ node = "idle"
    /\ call = Idle
    /\ lastSuccessAt = -1
    /\ lastCallAt = -1
    /\ degraded = FALSE

\* The device reboots: RAM, clock and radio start afresh, the store is kept.
Reboot ==
    /\ isJoined' = FALSE
    /\ isInitialized' = FALSE
    /\ lastTxTime' = 0
    /\ lastJoinAttempt' = 0
    /\ joinAttempts' = 0
    /\ txCounter' = 0
    /\ totalTransmissions' = 0
    /\ successfulTransmissions' = 0
    /\ failedTransmissions' = 0
    /\ totalJoinAttempts' = 0
    /\ now' = 0
    /\ node' = "idle"
    /\ lastSuccessAt' = -1
    /\ lastCallAt' = -1
    /\ UNCHANGED prefs

\* begin(): radio set-up, credentials, loadSession.
Begin(radioOk, store) ==
    /\ ~isInitialized
    /\ IF ~radioOk \/ ~parseCredentials(creds)
       THEN /\ call' = Quiet("begin", FALSE)
            /\ UNCHANGED <<mgr, now, node, prefs, lastSuccessAt, lastCallAt, degraded>>
       ELSE LET s == LoadSession(store, prefs, isJoined, Counters) IN
            /\ isJoined' = s.joined
            /\ txCounter' = s.tx_counter
            /\ totalTransmissions' = s.total_tx
            /\ successfulTransmissions' = s.success_tx
            /\ failedTransmissions' = s.failed_tx
            /\ isInitialized' = TRUE
            /\ call' = WithStore(Call("begin", TRUE, "none", FALSE, 0, FALSE,
                                       IF call.op = "restart" THEN call.snap
                                                              ELSE None),
                                  store)
            /\ UNCHANGED <<lastTxTime, lastJoinAttempt, joinAttempts,
                           totalJoinAttempts, now, node, prefs, lastSuccessAt,
                           lastCallAt, degraded>>

\* ---- OTAA join
\* startJoin(), line 136: the rate limit.
RateLimited == Elapsed(now, lastJoinAttempt) < JOIN_RETRY_DELAY

\* Variant: the limit compared with > instead of >=.
AttemptsExhaustedOffByOne == joinAttempts > MAX_JOIN_ATTEMPTS

\* startJoin(), line 140.
AttemptsExhausted == joinAttempts >= MAX_JOIN_ATTEMPTS

\* Variant: the attempt is not added to the total.
JoinInitiatedNotCounted ==
    /\ lastJoinAttempt' = now
    /\ joinAttempts' = (joinAttempts + 1) % 256
    /\ totalJoinAttempts' = totalJoinAttempts

\* startJoin(), lines 151-156: the capability accepted the request.
JoinInitiated ==
    /\ lastJoinAttempt' = now
    /\ joinAttempts' = (joinAttempts + 1) % 256
    /\ totalJoinAttempts' = totalJoinAttempts + 1

\* Variant: the rate limit is looked at before the joined flag.
StartJoinPathRateFirst ==
    IF ~isInitialized THEN "notInitialized"
    ELSE IF RateLimited THEN "tooSoon"
    ELSE IF isJoined THEN "joined"
    ELSE IF AttemptsExhausted THEN "exhausted"
    ELSE "forward"

\* Variant: the initialized flag is not looked at.
StartJoinPathNoInitCheck ==
    IF isJoined THEN "joined"
    ELSE IF RateLimited THEN "tooSoon"
    ELSE IF AttemptsExhausted THEN "exhausted"
    ELSE "forward"

\* startJoin(), lines 124-143: the checks in their order, and the path the
\* call takes.
StartJoinPath ==
    IF ~isInitialized THEN "notInitialized"
    ELSE IF isJoined THEN "joined"
    ELSE IF RateLimited THEN "tooSoon"
    ELSE IF AttemptsExhausted THEN "exhausted"
    ELSE "forward"

\* startJoin(): the value returned on each path (lines 126, 131, 137, 143)
\* and, on the path that reaches node->beginOTAA, for a request that was
\* accepted (line 155) and for one that failed (line 160).
StartJoinOutcomes ==
    {"notInitialized", "joined", "tooSoon", "exhausted", "accepted", "failed"}
StartJoinResult(outcome) == outcome \in {"joined", "accepted"}

\* startJoin(). res is the result of node->beginOTAA, t2 the clock when it
\* returns, accepted whether the network has accepted the join by then.
StartJoin ==
    \/ /\ StartJoinPath = "notInitialized"
       /\ call' = Quiet("startJoin", StartJoinResult("notInitialized"))
       /\ UNCHANGED <<mgr, now, node, prefs, lastSuccessAt, lastCallAt, degraded>>
    \/ /\ StartJoinPath = "joined"
       /\ call' = Quiet("startJoin", StartJoinResult("joined"))
       /\ UNCHANGED <<mgr, now, node, prefs, lastSuccessAt, lastCallAt, degraded>>
    \/ /\ StartJoinPath = "tooSoon"
       /\ call' = Quiet("startJoin", StartJoinResult("tooSoon"))
       /\ lastCallAt' = now
       /\ UNCHANGED <<mgr, now, node, prefs, lastSuccessAt, degraded>>
    \/ /\ StartJoinPath = "exhausted"
       \* ESP.restart()
       /\ Reboot
       /\ call' = Call("startJoin", StartJoinResult("exhausted"), "none",
                       FALSE, 0, TRUE, None)
       /\ degraded' = TRUE
    \/ /\ StartJoinPath = "forward"
       /\ \E t2 \in AfterCall(now) :
            /\ now' = t2
            /\ \/ \E accepted \in BOOLEAN :
                    /\ JoinInitiated
                    /\ node' = IF accepted THEN "joined" ELSE "pending"
                    /\ call' = Call("startJoin", StartJoinResult("accepted"),
                                    "ok", FALSE, 0, FALSE, None)
               \/ /\ node' = "idle"
                  /\ call' = Call("startJoin", StartJoinResult("failed"),
                                  "err", FALSE, 0, FALSE, None)
                  /\ UNCHANGED <<lastJoinAttempt, joinAttempts, totalJoinAttempts>>
       /\ lastCallAt' = now
       /\ degraded' = FALSE
       /\ UNCHANGED <<isJoined, isInitialized, lastTxTime, txCounter,
                      totalTransmissions, successfulTransmissions,
                      failedTransmissions, prefs, lastSuccessAt>>

\* The network accepts a pending join request.
JoinAccept ==
    /\ node = "pending"
    /\ node' = "joined"
    /\ call' = Idle
    /\ UNCHANGED <<mgr, now, prefs, lastSuccessAt, lastCallAt, degraded>>

\* Variant: the attempt counter is not reset.
JoinCompletedKeepsAttempts(store) ==
    /\ isJoined' = TRUE
    /\ joinAttempts' = joinAttempts
    /\ prefs' = SaveSession(store, TRUE, Counters, prefs)

\* Variant: the completed join is not written to the store.
JoinCompletedNotStored(store) ==
    /\ isJoined' = TRUE
    /\ joinAttempts' = 0
    /\ prefs' = prefs

\* Variant: the joined flag is not set.
JoinCompletedFlagNotSet(store) ==
    /\ isJoined' = isJoined
    /\ joinAttempts' = 0
    /\ prefs' = SaveSession(store, TRUE, Counters, prefs)

\* checkJoinStatus(), lines 170-181: the join is seen to have completed.
JoinCompleted(store) ==
    /\ isJoined' = TRUE
    /\ joinAttempts' = 0
    /\ prefs' = SaveSession(store, TRUE, Counters, prefs)

\* checkJoinStatus().
CheckJoinStatus(store) ==
    \/ /\ ~isInitialized \/ isJoined
       /\ call' = Quiet("checkJoinStatus", isJoined)
       /\ UNCHANGED <<mgr, now, node, prefs, lastSuccessAt, lastCallAt, degraded>>
    \/ /\ isInitialized /\ ~isJoined
       /\ node = "joined"
       /\ JoinCompleted(store)
       /\ call' = WithStore(Call("checkJoinStatus", TRUE, "none", TRUE, 1,
                                  FALSE, None), store)
       /\ lastCallAt' = -1
       /\ UNCHANGED <<isInitialized, lastTxTime, lastJoinAttempt, txCounter,
                      totalTransmissions, successfulTransmissions,
                      failedTransmissions, totalJoinAttempts, now, node,
                      lastSuccessAt, degraded>>
    \/ /\ isInitialized /\ ~isJoined
       /\ node # "joined"
       /\ call' = Call("checkJoinStatus", FALSE, "none", TRUE, 0, FALSE, None)
       /\ UNCHANGED <<mgr, now, node, prefs, lastSuccessAt, lastCallAt, degraded>>

\* ---- uplinks
\* getNextTxTime().
getNextTxTime ==
    IF ~isJoined THEN 0
    ELSE LET since == Elapsed(now, lastTxTime)
         IN  IF since >= TX_INTERVAL_MS THEN 0 ELSE TX_INTERVAL_MS - since

\* Variant: the duty-cycle comparison made with <= instead of <.
canTransmitInclusive ==
    /\ isInitialized
    /\ isJoined
    /\ ~(Elapsed(now, lastTxTime) <= TX_INTERVAL_MS)

\* Variant: the duty-cycle comparison left out.
canTransmitNoDutyCycle == isInitialized /\ isJoined

\* canTransmit().
canTransmit ==
    /\ isInitialized
    /\ isJoined
    /\ ~(Elapsed(now, lastTxTime) < TX_INTERVAL_MS)

\* Variant: the uplink sequence counter is not advanced.
TxSucceededNoSequence(store) ==
    /\ successfulTransmissions' = successfulTransmissions + 1
    /\ lastTxTime' = now'
    /\ txCounter' = txCounter
    /\ failedTransmissions' = failedTransmissions
    /\ prefs' = SaveSession(store, isJoined, Counters', prefs)

\* Variant: a successful uplink does not restart the duty-cycle interval.
TxSucceededNoStamp(store) ==
    /\ successfulTransmissions' = successfulTransmissions + 1
    /\ lastTxTime' = lastTxTime
    /\ txCounter' = txCounter + 1
    /\ failedTransmissions' = failedTransmissions
    /\ prefs' = SaveSession(store, isJoined, Counters', prefs)

\* sendCustomPayload(), lines 243-249: node->sendReceive returned no error.
TxSucceeded(store) ==
    /\ successfulTransmissions' = successfulTransmissions + 1
    /\ lastTxTime' = now'
    /\ txCounter' = txCounter + 1
    /\ failedTransmissions' = failedTransmissions
    /\ prefs' = SaveSession(store, isJoined, Counters', prefs)

\* Variant: a failed uplink also restarts the duty-cycle interval.
TxFailedStampsTime ==
    /\ failedTransmissions' = failedTransmissions + 1
    /\ lastTxTime' = now'
    /\ UNCHANGED <<successfulTransmissions, txCounter, prefs>>

\* Variant: a failed uplink is not counted as failed.
TxFailedNotCounted ==
    UNCHANGED <<failedTransmissions, successfulTransmissions, lastTxTime,
                txCounter, prefs>>

\* sendCustomPayload(), lines 250-255: node->sendReceive returned an error.
TxFailed ==
    /\ failedTransmissions' = failedTransmissions + 1
    /\ UNCHANGED <<successfulTransmissions, lastTxTime, txCounter, prefs>>

\* node->sendReceive succeeds only on an activated node and for a payload
\* it has room for.
SendResults(length) ==
    IF node = "joined" /\ length <= MaxFrame THEN {"ok", "err"} ELSE {"err"}

\* The send operations: the value returned on a closed gate (lines 193,
\* 205, 217, 230), after node->sendReceive succeeded (line 249) and after
\* it failed (line 254).
SendOutcomes == {"closed", "sent", "failed"}
SendResult(outcome) == outcome = "sent"

\* sendCustomPayload(). length is the payload's length, res the result of
\* node->sendReceive, t2 the clock when it returns.
Transmit(op, length, store) ==
    \/ /\ ~canTransmit
       /\ call' = Quiet(op, SendResult("closed"))
       /\ UNCHANGED <<mgr, now, node, prefs, lastSuccessAt, lastCallAt, degraded>>
    \/ /\ canTransmit
       /\ totalTransmissions < MaxTx
       /\ totalTransmissions' = totalTransmissions + 1
       /\ \E res \in SendResults(length), t2 \in AfterCall(now) :
            /\ now' = t2
            /\ IF res = "ok"
               THEN /\ TxSucceeded(store)
                    /\ lastSuccessAt' = t2
               ELSE /\ TxFailed
                    /\ UNCHANGED lastSuccessAt
            /\ call' = LET c == [Call(op, SendResult(IF res = "ok" THEN "sent"
                                                                  ELSE "failed"),
                                      res, FALSE, IF res = "ok" THEN 1 ELSE 0,
                                      FALSE, None)
                                 EXCEPT !.sent = length]
                       IN  IF res = "ok" THEN WithStore(c, store) ELSE c
       /\ UNCHANGED <<isJoined, isInitialized, lastJoinAttempt, joinAttempts,
                      totalJoinAttempts, node, lastCallAt, degraded>>

\* sendGPSData(), sendGeofenceEvent(), sendStatusUpdate(): the gate, the
\* encoding, then sendCustomPayload.
Wrapped(op, length, store) ==
    \/ /\ ~canTransmit
       /\ call' = Quiet(op, SendResult("closed"))
       /\ UNCHANGED <<mgr, now, node, prefs, lastSuccessAt, lastCallAt, degraded>>
    \/ /\ canTransmit
       /\ Transmit(op, length, store)

\* Records the wrappers are called with.
AnyFix == [latitude |-> -33448900, longitude |-> -70669300, altitude |-> 520,
           satellites |-> 8, hdop |-> 12]
AnyEvent == [geofence_id |-> 0, event_type |-> 1, latitude |-> -33448900,
             longitude |-> -70669300, timestamp |-> 60000]
\* Bytes of a status update: the tag and the fields of StatusUpdate.
StatusLength == 6

\* Payload lengths sendCustomPayload() is called with.
PayloadLengths == {1, MaxFrame, MaxFrame + 1}

SendCustomPayload(length, store) == Transmit("sendCustomPayload", length, store)
SendGPSData(store) == Wrapped("sendGPSData", Len(encodeGPSData(AnyFix)), store)
SendGeofenceEvent(store) ==
    Wrapped("sendGeofenceEvent", Len(encodeGeofenceEvent(AnyEvent)), store)
SendStatusUpdate(store) == Wrapped("sendStatusUpdate", StatusLength, store)

\* ---- control loop
\* handleGeofenceEvents(), lines 285-294, on a tick where checkGeofences()
\* has returned an event: the event is given to sendGeofenceEvent() if the
\* manager is connected, the result is not looked at, and the event goes
\* out of scope when the handler returns.
HandleGeofenceEvents(store) ==
    IF isJoined
    THEN Wrapped("handleGeofenceEvents", Len(encodeGeofenceEvent(AnyEvent)), store)
    ELSE /\ call' = Quiet("handleGeofenceEvents", FALSE)
         /\ UNCHANGED <<mgr, now, node, prefs, lastSuccessAt, lastCallAt, degraded>>

\* ---- environment
\* millis() advances to the next observed instant.
Tick ==
    /\ now < MaxTime
    /\ now' = NextInstant(now)
    /\ call' = Idle
    /\ UNCHANGED <<mgr, node, prefs, lastSuccessAt, lastCallAt, degraded>>

\* A power cycle between two operations.
Restart ==
    /\ Reboot
    /\ call' = Call("restart", FALSE, "none", FALSE, 0, FALSE,
                    IF call.op \in SendOps /\ call.ret THEN Counters ELSE None)
    /\ UNCHANGED degraded

\* ------------------------------------------------------------ geofence engine
Zones == 0 .. MAX_GEOFENCES - 1

\* The zones set up at startup; the other slots have no radius.
ConfiguredZones == {0, 1}
Radius(z) == IF z \in ConfiguredZones THEN DEFAULT_GEOFENCE_RADIUS ELSE 0

\* A sample is given by its distance in metres to every zone centre.
\* Zone 0 is approached at every distance around its boundary, zone 1 is
\* either well inside or well outside.
NearBoundary ==
    {DEFAULT_GEOFENCE_RADIUS - GEOFENCE_HYSTERESIS - 1,
     DEFAULT_GEOFENCE_RADIUS - GEOFENCE_HYSTERESIS,
     DEFAULT_GEOFENCE_RADIUS - 1,
     DEFAULT_GEOFENCE_RADIUS + GEOFENCE_HYSTERESIS - 1,
     DEFAULT_GEOFENCE_RADIUS + GEOFENCE_HYSTERESIS,
     DEFAULT_GEOFENCE_RADIUS + GEOFENCE_HYSTERESIS + 1}
FarFromBoundary ==
    {DEFAULT_GEOFENCE_RADIUS - GEOFENCE_HYSTERESIS - 1,
     DEFAULT_GEOFENCE_RADIUS + GEOFENCE_HYSTERESIS + 1}
Samples ==
    {[z \in Zones |-> IF z = 0 THEN a ELSE IF z = 1 THEN b ELSE 0] :
        a \in NearBoundary, b \in FarFromBoundary}

NoEvent == [geofence_id |-> -1, event_type |-> -1]
EXIT == 0
ENTER == 1

\* Variant: the margin is applied to entering only.
FlipsExitAtRadius(z, d, in) ==
    /\ z \in ConfiguredZones
    /\ IF in[z]
       THEN d[z] > Radius(z)
       ELSE d[z] <= Radius(z) - GEOFENCE_HYSTERESIS

\* Variant: the margin is applied to leaving only.
FlipsEnterAtRadius(z, d, in) ==
    /\ z \in ConfiguredZones
    /\ IF in[z]
       THEN d[z] > Radius(z) + GEOFENCE_HYSTERESIS
       ELSE d[z] <= Radius(z)

\* The committed state of zone z flips on a sample at distances d.
Flips(z, d, in) ==
    /\ z \in ConfiguredZones
    /\ IF in[z]
       THEN d[z] > Radius(z) + GEOFENCE_HYSTERESIS
       ELSE d[z] <= Radius(z) - GEOFENCE_HYSTERESIS

\* Variant: the scan returns the highest zone that flips.
FirstOfDescending(S) == CHOOSE z \in S : \A y \in S : y <= z

\* The zone an ascending scan reaches first.
FirstOf(S) == CHOOSE z \in S : \A y \in S : z <= y

\* checkGeofences(): the flags after the call and the event returned,
\* NoEvent when the call returns false.
checkGeofences(d, in) ==
    LET flipping == {z \in Zones : Flips(z, d, in)} IN
    IF flipping = {}
    THEN [inside |-> in, event |-> NoEvent]
    ELSE LET z == FirstOf(flipping) IN
         [inside |-> [in EXCEPT ![z] = ~in[z]],
          event |-> [geofence_id |-> z,
                     event_type |-> IF in[z] THEN EXIT ELSE ENTER]]

\* No zone has been entered and no sample evaluated.
EngineIdle ==
    /\ inside = [z \in Zones |-> FALSE]
    /\ trail = <<>>
    /\ emitted = <<>>

\* handleGeofenceEvents(), line 285: one valid fix is evaluated.
CheckGeofences ==
    /\ Len(trail) < MaxSamples
    /\ \E d \in Samples :
         LET r == checkGeofences(d, inside) IN
         /\ inside' = r.inside
         /\ trail' = Append(trail, d)
         /\ emitted' = Append(emitted, r.event)
    /\ UNCHANGED <<link, codec, elapsed>>

GeoInit ==
    /\ PowerUp
    /\ prefs = EmptyPrefs
    /\ creds = SourceConfig
    /\ CodecIdle
    /\ EngineIdle

GeoNext == CheckGeofences

GeoSpec == GeoInit /\ [][GeoNext]_vars

\* ------------------------------------------------------------ codec runs
Int32Samples == {-2147483647 - 1, -70669300, -33448900, -1, 0, 1, 255, 256,
                 2147483647}
Int16Samples == {-32768, -1, 0, 520, 32767}
UInt8Samples == {0, 8, 12, 255}
\* A uint32_t; the values above 2^31 - 1 are left out.
UInt32Samples == {0, 60000, 16777216, 2147483647}

GPSRecords ==
    [kind : {"gps"}, latitude : Int32Samples, longitude : {-70669300, 2147483647},
     altitude : Int16Samples, satellites : UInt8Samples, hdop : {0, 12, 255}]
EventRecords ==
    [kind : {"event"}, geofence_id : {0, 4, 255}, event_type : {EXIT, ENTER},
     latitude : {-33448900, 1}, longitude : Int32Samples,
     timestamp : UInt32Samples]

\* The encoders applied to the record drawn at the start.
EncodeGPSData ==
    /\ record.kind = "gps"
    /\ buffer = <<>>
    /\ buffer' = encodeGPSData(record)
    /\ UNCHANGED <<link, engine, record, elapsed>>

EncodeGeofenceEvent ==
    /\ record.kind = "event"
    /\ buffer = <<>>
    /\ buffer' = encodeGeofenceEvent(record)
    /\ UNCHANGED <<link, engine, record, elapsed>>

CodecInit ==
    /\ PowerUp
    /\ prefs = EmptyPrefs
    /\ creds = SourceConfig
    /\ record \in GPSRecords \cup EventRecords
    /\ buffer = <<>>
    /\ elapsed = 0
    /\ EngineIdle

CodecNext == EncodeGPSData \/ EncodeGeofenceEvent

CodecSpec == CodecInit /\ [][CodecNext]_vars

\* ------------------------------------------------------------ the firmware
Init ==
    /\ PowerUp
    /\ prefs \in {EmptyPrefs, StoredSession}
    /\ creds \in Configs
    /\ CodecIdle
    /\ EngineIdle

Next ==
    \/ /\ \E radioOk \in BOOLEAN, store \in StoreOutcomes : Begin(radioOk, store)
       /\ UNCHANGED <<creds, codec, engine, elapsed>>
    \/ StartJoin /\ UNCHANGED <<creds, codec, engine, elapsed>>
    \/ JoinAccept /\ UNCHANGED <<creds, codec, engine, elapsed>>
    \/ /\ \E store \in StoreOutcomes : CheckJoinStatus(store)
       /\ UNCHANGED <<creds, codec, engine, elapsed>>
    \/ /\ \E length \in PayloadLengths, store \in StoreOutcomes :
            SendCustomPayload(length, store)
       /\ UNCHANGED <<creds, codec, engine, elapsed>>
    \/ /\ \E store \in StoreOutcomes : SendGPSData(store)
       /\ UNCHANGED <<creds, codec, engine, elapsed>>
    \/ /\ \E store \in StoreOutcomes : SendGeofenceEvent(store)
       /\ UNCHANGED <<creds, codec, engine, elapsed>>
    \/ /\ \E store \in StoreOutcomes : SendStatusUpdate(store)
       /\ UNCHANGED <<creds, codec, engine, elapsed>>
    \/ /\ \E store \in StoreOutcomes : HandleGeofenceEvents(store)
       /\ UNCHANGED <<creds, codec, engine, elapsed>>
    \/ Tick /\ UNCHANGED <<creds, codec, engine, elapsed>>
    \/ Restart /\ UNCHANGED <<creds, codec, engine, elapsed>>

Spec == Init /\ [][Next]_vars

\* ---- the control loop up to the first open gate
\* loop() and handleLoRaWANEvents(): every pass calls checkJoinStatus(),
\* and millis() goes on between passes.
LoopCheckJoinStatus ==
    CheckJoinStatus(AllOk) /\ UNCHANGED <<creds, codec, engine, elapsed>>

LoopTick == Tick /\ UNCHANGED <<creds, codec, engine, elapsed>>

LiveInit ==
    /\ PowerUp
    /\ prefs \in {EmptyPrefs, StoredSession}
    /\ creds = SourceConfig
    /\ CodecIdle
    /\ EngineIdle

LiveNext ==
    \/ /\ \E radioOk \in BOOLEAN : Begin(radioOk, AllOk)
       /\ UNCHANGED <<creds, codec, engine, elapsed>>
    \/ StartJoin /\ UNCHANGED <<creds, codec, engine, elapsed>>
    \/ JoinAccept /\ UNCHANGED <<creds, codec, engine, elapsed>>
    \/ LoopCheckJoinStatus
    \/ LoopTick

LiveSpec ==
    /\ LiveInit
    /\ [][LiveNext]_vars
    /\ WF_vars(LoopCheckJoinStatus)
    /\ WF_vars(LoopTick)

\* ---- hexStringToBytes on its own
\* The characters the strings are made of: '0', '9', 'A', 'F', 'a', 'f'
\* and 'G'.
HexAlphabet == {48, 57, 65, 70, 97, 102, 71}

\* The strings of up to 2 * MaxHexBytes characters.
HexInputs == UNION {[1..k -> HexAlphabet] : k \in 0 .. 2 * MaxHexBytes}

\* A string, a buffer size, and the buffer of that size filled with 0xFF.
HexInit ==
    /\ PowerUp
    /\ prefs = EmptyPrefs
    /\ creds = SourceConfig
    /\ \E str \in HexInputs, n \in 1 .. MaxHexBytes :
         /\ record = [kind |-> "hex", str |-> str, n |-> n]
         /\ buffer = [i \in 1..n |-> 255]
    /\ elapsed = 0
    /\ EngineIdle

\* hexStringToBytes(record.str, buffer, record.n) is called.
HexStringToBytes ==
    /\ call.op = "none"
    /\ LET result == hexStringToBytes(record.str, buffer, record.n)
       IN  /\ call' = Quiet("hexStringToBytes", result.ok)
           /\ buffer' = result.bytes
    /\ UNCHANGED <<mgr, now, node, prefs, lastSuccessAt, lastCallAt, degraded,
                   creds, record, engine, elapsed>>

HexNext == HexStringToBytes

HexSpec == HexInit /\ [][HexNext]_vars

\* ---- the gates around the wrap of the clock
\* The clock values at which the last uplink and the last join request
\* are taken to have happened: far from the wrap, and one interval or less
\* before it.
WrapStarts ==
    {0, Wrap - TX_INTERVAL_MS - 1, Wrap - TX_INTERVAL_MS,
     Wrap - JOIN_RETRY_DELAY - 1, Wrap - JOIN_RETRY_DELAY, Wrap - 1}

\* A joined manager whose last uplink and last join request were at
\* clock time t, at that time.
WrapInit ==
    /\ \E t \in WrapStarts :
         /\ lastTxTime = t
         /\ lastJoinAttempt = t
         /\ now = t
    /\ elapsed = 0
    /\ isInitialized = TRUE
    /\ isJoined = TRUE
    /\ joinAttempts = 0
    /\ txCounter = 1
    /\ totalTransmissions = 1
    /\ successfulTransmissions = 1
    /\ failedTransmissions = 0
    /\ totalJoinAttempts = 1
    /\ node = "joined"
    /\ prefs = StoredSession
    /\ call = Idle
    /\ lastSuccessAt = -1
    /\ lastCallAt = -1
    /\ degraded = FALSE
    /\ creds = SourceConfig
    /\ record = [kind |-> "none"]
    /\ buffer = <<>>
    /\ EngineIdle

\* Time goes by, observed at the start and the last millisecond of every
\* JOIN_RETRY_DELAY since the events, up to one millisecond short of a
\* whole turn of the clock; millis() wraps.
WrapTick ==
    /\ elapsed < Wrap - 1
    /\ LET next == IF NextInstant(elapsed) < Wrap THEN NextInstant(elapsed)
                                                  ELSE Wrap - 1
       IN  /\ elapsed' = next
           /\ now' = (now + (next - elapsed)) % Wrap
    /\ call' = Idle
    /\ UNCHANGED <<mgr, node, prefs, lastSuccessAt, lastCallAt, degraded,
                   creds, codec, engine>>

\* canTransmit() and getNextTxTime() are called.
CanTransmit ==
    /\ call' = Quiet("canTransmit", canTransmit)
    /\ UNCHANGED <<mgr, now, node, prefs, lastSuccessAt, lastCallAt, degraded,
                   creds, codec, engine, elapsed>>

GetNextTxTime ==
    /\ call' = Quiet("getNextTxTime", getNextTxTime)
    /\ UNCHANGED <<mgr, now, node, prefs, lastSuccessAt, lastCallAt, degraded,
                   creds, codec, engine, elapsed>>

WrapNext == WrapTick \/ CanTransmit \/ GetNextTxTime

WrapSpec == WrapInit /\ [][WrapNext]_vars

\* ---- the firmware on a store that may fail
\* One run of the device is followed until the duty-cycle gate first opens,
\* starting from an empty store, a stored session, or a record that a save
\* with a failed put has left behind.
HalfStoredSession == [joined |-> FALSE, tx_counter |-> 0, total_tx |-> 1,
                      success_tx |-> 1, failed_tx |-> 0]

StoreInit ==
    /\ PowerUp
    /\ prefs \in {EmptyPrefs, StoredSession, HalfStoredSession}
    /\ creds = SourceConfig
    /\ CodecIdle
    /\ EngineIdle

StoreNext ==
    \/ /\ \E store \in FaultyOutcomes : Begin(TRUE, store)
       /\ UNCHANGED <<creds, codec, engine, elapsed>>
    \/ StartJoin /\ UNCHANGED <<creds, codec, engine, elapsed>>
    \/ JoinAccept /\ UNCHANGED <<creds, codec, engine, elapsed>>
    \/ /\ \E store \in FaultyOutcomes : CheckJoinStatus(store)
       /\ UNCHANGED <<creds, codec, engine, elapsed>>
    \/ /\ \E store \in FaultyOutcomes : SendGPSData(store)
       /\ UNCHANGED <<creds, codec, engine, elapsed>>
    \/ /\ now < TX_INTERVAL_MS
       /\ Tick
       /\ UNCHANGED <<creds, codec, engine, elapsed>>

StoreSpec == StoreInit /\ [][StoreNext]_vars

\* ============================================================ properties
\* A startJoin() call on an initialized manager that has not joined.
JoinCall == call'.op = "startJoin" /\ isInitialized /\ ~isJoined

\* C1: in a sequence of startJoin() calls on an initialized, not-yet-joined
\* manager, each less than JOIN_RETRY_DELAY ms after the previous one, the
\* first call is forwarded to node->beginOTAA and every later call is not:
\* it returns false and leaves joinAttempts and totalJoinAttempts unchanged.
C1_OnlyFirstForwarded ==
    [][JoinCall =>
         IF lastCallAt # -1 /\ now - lastCallAt < JOIN_RETRY_DELAY
         THEN /\ call'.radio = "none"
              /\ ~call'.ret
              /\ joinAttempts' = joinAttempts
              /\ totalJoinAttempts' = totalJoinAttempts
         ELSE call'.radio # "none"]_vars

SendCall == call'.op \in SendOps

\* The stored record that holds exactly the manager's fields.
Snapshot ==
    [joined |-> isJoined, tx_counter |-> txCounter,
     total_tx |-> totalTransmissions, success_tx |-> successfulTransmissions,
     failed_tx |-> failedTransmissions]

\* C3: after a successful uplink at clock time t, canTransmit() is false at
\* every observed time before t + TX_INTERVAL_MS and true from
\* t + TX_INTERVAL_MS on.
C3_GateReopensAfterInterval ==
    (isInitialized /\ lastSuccessAt # -1) =>
        (canTransmit <=> now - lastSuccessAt >= TX_INTERVAL_MS)

\* C3 witness: the last millisecond of the interval, the gate still closed.
C3_Witness ==
    /\ lastSuccessAt # -1
    /\ now = lastSuccessAt + TX_INTERVAL_MS - 1
    /\ ~canTransmit

\* C4: every uplink operation invokes node->sendReceive only when the manager
\* is initialized and joined and TX_INTERVAL_MS has elapsed since the last
\* successful uplink; otherwise it returns false and changes no field of
\* the manager and nothing in the store.
C4_SingleGate ==
    [][SendCall =>
         LET open == /\ isInitialized
                     /\ isJoined
                     /\ now - lastTxTime >= TX_INTERVAL_MS
         IN  /\ call'.radio # "none" =>
                   /\ open
                   /\ lastSuccessAt # -1 => now - lastSuccessAt >= TX_INTERVAL_MS
             /\ ~open =>
                   /\ ~call'.ret
                   /\ call'.radio = "none"
                   /\ call'.saved = 0
                   /\ UNCHANGED <<mgr, prefs>>]_vars

\* C4 witness: an uplink refused inside the duty-cycle interval.
C4_Witness ==
    /\ call.op = "sendGeofenceEvent"
    /\ call.radio = "none"
    /\ ~call.ret
    /\ isInitialized /\ isJoined
    /\ lastSuccessAt # -1

C6_FailedUplink ==
    [][(SendCall /\ call'.radio = "err") =>
         /\ ~call'.ret
         /\ totalTransmissions' = totalTransmissions + 1
         /\ failedTransmissions' = failedTransmissions + 1
         /\ UNCHANGED <<lastTxTime, txCounter, successfulTransmissions, isJoined>>
         /\ isInitialized' /\ isJoined'
         /\ now' - lastTxTime' >= TX_INTERVAL_MS]_vars

\* C6 witness: a failed uplink during which the clock moved.
C6_Witness ==
    /\ call.op \in SendOps
    /\ call.radio = "err"
    /\ now % JOIN_RETRY_DELAY # 0
    /\ successfulTransmissions > 0

C8_StoredAfterEveryAttempt ==
    (call.op \in SendOps /\ call.radio # "none") =>
        /\ prefs.total_tx = totalTransmissions
        /\ prefs.success_tx = successfulTransmissions
        /\ prefs.failed_tx = failedTransmissions

C11_FailureRecorded ==
    [][(JoinCall /\ call'.radio = "err") =>
         /\ joinAttempts' = joinAttempts + 1
         /\ lastJoinAttempt' \in {now, now'}]_vars

\* C12 (as claimed): a geofence event that handleGeofenceEvents() receives
\* while the manager is joined is given to node->sendReceive. The handler
\* keeps no event beyond its own return, so an event not sent by then is
\* never sent.
C12_EventHandedToRadio ==
    [][(call'.op = "handleGeofenceEvents" /\ isJoined) =>
         call'.radio # "none"]_vars

\* C13: startJoin() on a joined manager returns true without calling
\* node->beginOTAA, restarting or saving, and changes no field of the
\* manager, nothing in the store, not the node and not the clock, whatever
\* the time since the last attempt.
C13_JoinedNoOp ==
    [][(call'.op = "startJoin" /\ isJoined) =>
         /\ call'.ret
         /\ call'.radio = "none"
         /\ ~call'.restarted
         /\ call'.saved = 0
         /\ UNCHANGED <<mgr, prefs, node, now>>]_vars

\* C13 witness: such a call when the retry delay has elapsed, after a join
\* that took more than one request.
C13_Witness ==
    /\ call.op = "startJoin"
    /\ call.ret
    /\ isJoined
    /\ totalJoinAttempts > 1
    /\ ~RateLimited

\* ---- geofence engine (GeoSpec)
\* The sample of the evaluation just made and the event it returned.
LastSample == trail'[Len(trail')]
LastEvent == emitted'[Len(emitted')]
Evaluated == Len(trail') = Len(trail) + 1

\* C14: in one evaluation, a zone's flag goes from outside to inside only
\* at a distance <= R - M and with an ENTER event for that zone, from inside
\* to outside only at a distance > R + M and with an EXIT event for that
\* zone; at a distance d with R - M < d <= R + M the flag keeps its value
\* and the event returned is not for that zone.
C14_Hysteresis ==
    [][Evaluated =>
         \A z \in ConfiguredZones :
            LET dist == LastSample[z]
                R == Radius(z)
                M == GEOFENCE_HYSTERESIS
            IN  /\ (~inside[z] /\ inside'[z]) =>
                      /\ dist <= R - M
                      /\ LastEvent = [geofence_id |-> z, event_type |-> ENTER]
                /\ (inside[z] /\ ~inside'[z]) =>
                      /\ dist > R + M
                      /\ LastEvent = [geofence_id |-> z, event_type |-> EXIT]
                /\ (R - M < dist /\ dist <= R + M) =>
                      /\ inside'[z] = inside[z]
                      /\ LastEvent.geofence_id # z]_vars

\* C14 witness: zone 0 was entered and a later sample at exactly R + M
\* left it inside, without an event.
C14_Witness ==
    /\ Len(trail) >= 2
    /\ inside[0]
    /\ trail[Len(trail)][0] = Radius(0) + GEOFENCE_HYSTERESIS
    /\ emitted[Len(emitted)] = NoEvent
    /\ emitted[1] = [geofence_id |-> 0, event_type |-> ENTER]

\* The first four samples put zone 0 at R+M+1, R-1, R+M-1, R-M-1 and keep
\* the other zone outside throughout.
ClaimedSequence ==
    /\ Len(trail) >= 4
    /\ <<trail[1][0], trail[2][0], trail[3][0], trail[4][0]>> =
          <<Radius(0) + GEOFENCE_HYSTERESIS + 1, Radius(0) - 1,
            Radius(0) + GEOFENCE_HYSTERESIS - 1,
            Radius(0) - GEOFENCE_HYSTERESIS - 1>>
    /\ \A i \in 1..4 : trail[i][1] > Radius(1) + GEOFENCE_HYSTERESIS

\* C15 (as claimed): the distance sequence R+M+1, R-1, R+M-1, R-M-1 from
\* the outside state returns nothing, ENTER, nothing, EXIT.
C15_EnterThenExit ==
    ClaimedSequence =>
        SubSeq(emitted, 1, 4) =
            <<NoEvent, [geofence_id |-> 0, event_type |-> ENTER],
              NoEvent, [geofence_id |-> 0, event_type |-> EXIT]>>

\* C15 (amended): the distance sequence R+M+1, R-1, R+M-1, R-M-1 from the
\* outside state returns nothing at the first three samples (the second
\* and third lie in the band) and one ENTER at the fourth; it returns no
\* EXIT.
C15_EnterAtFourth ==
    ClaimedSequence =>
        SubSeq(emitted, 1, 4) =
            <<NoEvent, NoEvent, NoEvent,
              [geofence_id |-> 0, event_type |-> ENTER]>>

\* C15 witness: the sequence has been fed and zone 0 is inside.
C15_Witness ==
    /\ ClaimedSequence
    /\ Len(trail) = 4
    /\ inside[0]

\* The events for zone z among the first n evaluations.
EventsOf(z, n) == {j \in 1..n : emitted[j].geofence_id = z}
\* The flag of zone z before evaluation i, from the events returned so far.
InsideBefore(z, i) == Cardinality(EventsOf(z, i - 1)) % 2 = 1
\* Zone z met its flip condition at evaluation i.
Crossed(z, i) ==
    IF InsideBefore(z, i)
    THEN trail[i][z] > Radius(z) + GEOFENCE_HYSTERESIS
    ELSE trail[i][z] <= Radius(z) - GEOFENCE_HYSTERESIS

\* C16: for every zone the events returned alternate ENTER, EXIT, ...
\* beginning with ENTER, and every evaluation returns one event for the
\* lowest-numbered zone that met its flip condition, or none when no zone
\* did; the flags agree with the events returned.
C16_AlternateLowestFirst ==
    /\ \A z \in Zones :
          /\ \A j \in EventsOf(z, Len(emitted)) :
                emitted[j].event_type =
                    IF InsideBefore(z, j) THEN EXIT ELSE ENTER
          /\ inside[z] = InsideBefore(z, Len(emitted) + 1)
    /\ \A i \in 1..Len(emitted) :
          LET crossed == {z \in ConfiguredZones : Crossed(z, i)} IN
          IF crossed = {}
          THEN emitted[i] = NoEvent
          ELSE /\ emitted[i].geofence_id \in crossed
               /\ \A z \in crossed : emitted[i].geofence_id <= z

\* C16 witness: both zones were entered by the first sample; the event for
\* zone 1 came at the second evaluation, and zone 0 has since been left and
\* entered again.
C16_Witness ==
    /\ Len(emitted) = 4
    /\ trail[1][1] <= Radius(1) - GEOFENCE_HYSTERESIS
    /\ emitted[1] = [geofence_id |-> 0, event_type |-> ENTER]
    /\ emitted[2] = [geofence_id |-> 1, event_type |-> ENTER]
    /\ emitted[3] = [geofence_id |-> 0, event_type |-> EXIT]
    /\ emitted[4] = [geofence_id |-> 0, event_type |-> ENTER]

\* ---- payload codec (CodecSpec)
\* The big-endian unsigned and two's complement values of a byte sequence.
RECURSIVE Unsigned(_)
Unsigned(bytes) ==
    IF bytes = <<>> THEN 0
    ELSE Unsigned(SubSeq(bytes, 1, Len(bytes) - 1)) * 256 + bytes[Len(bytes)]
Signed(bytes) ==
    (IF bytes[1] >= 128 THEN bytes[1] - 256 ELSE bytes[1])
        * 256 ^ (Len(bytes) - 1)
    + Unsigned(SubSeq(bytes, 2, Len(bytes)))

\* C17: encodeGPSData writes 13 bytes, the tag 0x01 and then latitude and
\* longitude (4 bytes each), altitude (2 bytes), satellites and hdop (1 byte
\* each); encodeGeofenceEvent writes 15 bytes, the tag 0x02 and then zone
\* id and kind (1 byte each), latitude, longitude and timestamp (4 bytes
\* each). Every byte is in 0..255 and decoding the bytes at these offsets
\* as big-endian two's complement (unsigned for the timestamp) gives back
\* each field of the record.
C17_PayloadLayout ==
    /\ \A i \in 1..Len(buffer) : buffer[i] \in 0..255
    /\ (record.kind = "gps" /\ buffer # <<>>) =>
          /\ Len(buffer) = 13
          /\ buffer[1] = 1
          /\ Signed(SubSeq(buffer, 2, 5)) = record.latitude
          /\ Signed(SubSeq(buffer, 6, 9)) = record.longitude
          /\ Signed(SubSeq(buffer, 10, 11)) = record.altitude
          /\ buffer[12] = record.satellites
          /\ buffer[13] = record.hdop
    /\ (record.kind = "event" /\ buffer # <<>>) =>
          /\ Len(buffer) = 15
          /\ buffer[1] = 2
          /\ buffer[2] = record.geofence_id
          /\ buffer[3] = record.event_type
          /\ Signed(SubSeq(buffer, 4, 7)) = record.latitude
          /\ Signed(SubSeq(buffer, 8, 11)) = record.longitude
          /\ buffer[12] < 128
          /\ Unsigned(SubSeq(buffer, 12, 15)) = record.timestamp

\* C17 witness: the position lat = -33448900, lon = -70669300, altitude =
\* 520, satellites = 8, hdop = 12 has been encoded, the latitude as
\* FE 01 9C 3C.
C17_Witness ==
    /\ record = [kind |-> "gps", latitude |-> -33448900,
                 longitude |-> -70669300, altitude |-> 520,
                 satellites |-> 8, hdop |-> 12]
    /\ Len(buffer) = 13
    /\ SubSeq(buffer, 2, 5) = <<254, 1, 156, 60>>

\* ---- failures
\* C18 (as claimed): no payload longer than the longest supported frame is
\* given to node->sendReceive.
C18_OversizeNeverSent == call.sent <= MaxFrame

\* How the startJoin() or send call just made ended.
StartJoinOutcome ==
    IF call.radio = "ok" THEN "accepted"
    ELSE IF call.radio = "err" THEN "failed"
    ELSE IF call.restarted THEN "exhausted"
    ELSE IF call.ret THEN "joined"
    ELSE IF ~isInitialized THEN "notInitialized"
    ELSE "tooSoon"
SendOutcome ==
    IF call.radio = "ok" THEN "sent"
    ELSE IF call.radio = "err" THEN "failed"
    ELSE "closed"

\* C19 (as claimed): the value a failed startJoin() returns is returned for
\* no other outcome of startJoin(), and the value a failed send returns is
\* returned for no other outcome of a send: the result tells 'too soon',
\* the exhausted attempts, 'not initialized' and a failed node->beginOTAA
\* apart, and a closed gate from a failed node->sendReceive.
C19_FailuresDistinguished ==
    /\ (call.op = "startJoin" /\ ~call.ret) =>
          \A other \in StartJoinOutcomes \ {StartJoinOutcome} :
             StartJoinResult(other) # call.ret
    /\ (call.op \in SendOps /\ ~call.ret) =>
          \A other \in SendOutcomes \ {SendOutcome} :
             SendResult(other) # call.ret

\* ---- configuration
\* The characters 0-9, A-F and a-f.
HexDigits ==
    {48, 49, 50, 51, 52, 53, 54, 55, 56, 57, 65, 66, 67, 68, 69, 70,
     97, 98, 99, 100, 101, 102}
HexString(str, n) == Len(str) = n /\ \A i \in 1..Len(str) : str[i] \in HexDigits
WellFormed(c) ==
    /\ HexString(c.devEUI, 16)
    /\ HexString(c.appEUI, 16)
    /\ HexString(c.appKey, 32)

\* C20: with a device identifier, application identifier or root key that
\* is not a string of exactly 16, 16 and 32 hex digits, the manager is never
\* initialized and never joined, its counters stay as constructed whatever
\* the store holds, canTransmit() is false, every operation returns false,
\* and none calls node->beginOTAA, node->isJoined or node->sendReceive or
\* writes the store.
C20_ConfigErrorsFatal ==
    ~WellFormed(creds) =>
        /\ ~isInitialized
        /\ ~isJoined
        /\ Counters = [tx_counter |-> 0, total_tx |-> 0, success_tx |-> 0,
                       failed_tx |-> 0]
        /\ joinAttempts = 0 /\ totalJoinAttempts = 0
        /\ ~canTransmit
        /\ ~call.ret
        /\ call.radio = "none"
        /\ ~call.polled
        /\ call.saved = 0
        /\ call.sent = 0
        /\ node = "idle"
        /\ prefs \in {EmptyPrefs, StoredSession}

\* C20 witness: begin() has just returned false for a root key whose last
\* character is 'g', with a joined session in the store.
C20_Witness ==
    /\ call.op = "begin"
    /\ ~call.ret
    /\ Len(creds.appKey) = 32
    /\ creds.appKey[32] = 103
    /\ prefs = StoredSession
    /\ now > 0

\* ---- clock wraparound (WrapSpec)
\* C21: with the last uplink and the last join request at clock time t and
\* d milliseconds truly gone by since, d less than a whole turn of the
\* clock, canTransmit() is false exactly when d < TX_INTERVAL_MS,
\* getNextTxTime() is the rest of the interval, or 0 once it is over, and
\* the join rate limit holds exactly when d < JOIN_RETRY_DELAY, also when
\* the clock has wrapped to a value below t.
C21_WrapSafe ==
    /\ canTransmit <=> elapsed >= TX_INTERVAL_MS
    /\ getNextTxTime =
          IF elapsed < TX_INTERVAL_MS THEN TX_INTERVAL_MS - elapsed ELSE 0
    /\ RateLimited <=> elapsed < JOIN_RETRY_DELAY
    /\ call.op = "canTransmit" => (call.ret <=> elapsed >= TX_INTERVAL_MS)

\* C21 witness: the clock has wrapped and the last millisecond of the
\* interval has come; canTransmit() has returned false.
C21_Witness ==
    /\ now < lastTxTime
    /\ elapsed = TX_INTERVAL_MS - 1
    /\ call.op = "canTransmit"
    /\ ~call.ret

\* ---- storage (StoreSpec)
\* C22: every operation returns with the store handle closed; an operation
\* whose Preferences.begin failed, or that did not open the store, leaves
\* the stored record as it was, and a begin() whose loadSession() could not
\* open the store leaves the joined flag and the counters as they were.
C22_ScopedStore ==
    [][/\ call'.handle = "closed"
       /\ call'.opened # "yes" => prefs' = prefs
       /\ (call'.op = "begin" /\ call'.opened = "no") =>
             UNCHANGED <<isJoined, txCounter, totalTransmissions,
                         successfulTransmissions, failedTransmissions>>]_vars

\* C22 witness: a save in which the put of tx_counter failed has returned,
\* the handle closed, the stored sequence counter behind the manager's.
C22_Witness ==
    /\ call.saved = 1
    /\ call.opened = "yes"
    /\ call.handle = "closed"
    /\ prefs.tx_counter # txCounter
    /\ prefs.total_tx = totalTransmissions

\* ---- activation and the capability
\* C23 (as claimed): whenever the manager reports Activated, the
\* capability's isActivated() is true, also after a restart that restored
\* joined = true from the store.
C23_ActivatedAgreesWithNode == isJoined => node = "joined"

\* C24: a successful uplink is handed to the radio no earlier than
\* TX_INTERVAL_MS after the previous successful uplink of the run returned,
\* whatever failed uplinks lie between, and no earlier than TX_INTERVAL_MS
\* after boot.
C24_SuccessesSpaced ==
    [][(call'.op \in SendOps \cup {"handleGeofenceEvents"}
          /\ call'.radio = "ok") =>
         /\ now >= TX_INTERVAL_MS
         /\ lastSuccessAt # -1 => now - lastSuccessAt >= TX_INTERVAL_MS
         /\ lastSuccessAt' = now'
         /\ lastSuccessAt' >= now]_vars

\* C24 witness: the second successful uplink of a run, a failed one
\* between the two.
C24_Witness ==
    /\ call.op \in SendOps
    /\ call.radio = "ok"
    /\ successfulTransmissions = 2
    /\ failedTransmissions = 1
    /\ lastSuccessAt = now

GuardedOps == {"startJoin", "checkJoinStatus"} \cup SendOps

\* C27: a joined manager is an initialized one; on a manager that is not
\* initialized canTransmit() is false, and startJoin(), checkJoinStatus()
\* and the send operations return false without a call to the capability
\* and without a change to the manager or the store.
C27_InitializedFirst ==
    [][/\ isJoined => isInitialized
       /\ isJoined' => isInitialized'
       /\ ~isInitialized => ~canTransmit
       /\ (~isInitialized /\ call'.op \in GuardedOps) =>
             /\ ~call'.ret
             /\ call'.radio = "none"
             /\ ~call'.polled
             /\ UNCHANGED <<mgr, prefs, node>>]_vars

\* C27 witness: checkJoinStatus() has returned false on a manager whose
\* begin() failed, the store holding a joined session.
C27_Witness ==
    /\ call.op = "checkJoinStatus"
    /\ ~call.ret
    /\ ~isInitialized
    /\ prefs.joined
    /\ now >= JOIN_RETRY_DELAY

DigitValue(c) ==
    IF c \in 48..57 THEN c - 48
    ELSE IF c \in 65..70 THEN c - 65 + 10
    ELSE c - 97 + 10

\* C29 (as claimed): hexStringToBytes(s, out, n) returns true exactly when
\* s has 2n characters, all of them hexadecimal digits; then out[i] is
\* 16 * value(s[2i]) + value(s[2i+1]), the letters A-F taken in either
\* case; and when the length is not 2n no byte of out is written.
C29_HexStringToBytes ==
    call.op = "hexStringToBytes" =>
        /\ call.ret <=> HexString(record.str, 2 * record.n)
        /\ call.ret =>
              \A i \in 1 .. record.n :
                  buffer[i] = 16 * DigitValue(record.str[2 * i - 1])
                                 + DigitValue(record.str[2 * i])
        /\ Len(record.str) # 2 * record.n =>
              \A i \in 1 .. record.n : buffer[i] = 255

\* ---- progress (LiveSpec)
\* C25: when the loop keeps calling checkJoinStatus() and the clock keeps
\* advancing, and from some point on the capability reports the device
\* activated, the manager becomes Activated and canTransmit() becomes
\* true, and stays true as long as nothing is sent.
C25_ActivationProgress == <>[](node = "joined") => <>[]canTransmit

\* C25 witness: the gate is open on a manager that was activated by its
\* only accepted request, made later than the first moment the rate limit
\* allowed, and that has sent nothing.
C25_Witness ==
    /\ canTransmit
    /\ node = "joined"
    /\ lastTxTime = 0
    /\ totalJoinAttempts = 1
    /\ lastJoinAttempt > JOIN_RETRY_DELAY
    /\ call.op = "checkJoinStatus"

====
